---- MODULE Spec2Model ----
(***************************************************************************)
(* Model of src/bot.py: the cart store, the checkout wizard (aiogram FSM   *)
(* states of class Checkout), the order commit in checkout_confirm and     *)
(* the admin toggles of the catalogue.                                     *)
(*                                                                         *)
(* Scheduling.  main() builds Dispatcher() with no events isolation and    *)
(* polls with the default handle_as_tasks: every update is handled in its  *)
(* own asyncio task, also two updates of the same user.  A handler runs    *)
(* without interruption up to an await that really suspends: a database    *)
(* call (aiosqlite runs it on a thread) or a call of the Bot API.  The     *)
(* FSM calls (state.get_data, update_data, set_state, clear) go to the     *)
(* in-memory storage of Dispatcher() and never suspend.  So a handler is   *)
(* a sequence of steps, one per database statement, each step holding the  *)
(* statement and the code that runs before the next one; the tasks in      *)
(* flight are the bag `tasks`.                                             *)
(*                                                                         *)
(* Database.  db_fetchone/db_fetchall/db_execute open a connection per     *)
(* call and commit at once: one statement is one atomic step.              *)
(* checkout_confirm holds one connection over its INSERTs and DELETE and   *)
(* commits at the end: its writes are pending (field tx of its task) and   *)
(* become visible at COMMIT; from its first INSERT it holds SQLite's write *)
(* lock, so the other writers wait (DbLocked).  PRAGMA foreign_keys = ON   *)
(* is executed on the connection of db_init only, and the pragma is per    *)
(* connection: the handlers' connections do not enforce the foreign keys.  *)
(***************************************************************************)
EXTENDS Integers, Sequences, FiniteSets, Bags, TLC

VARIABLES
    products,     \* table products: id -> [price, variants, active, exists]
    cart,         \* table cart: <<user_id, product_id, variant>> -> qty
    orders,       \* table orders, in id order (AUTOINCREMENT)
    order_items,  \* table order_items
    fsm,          \* FSM storage: user -> [state, data]
    tasks,        \* handlers in flight: a bag of task records
    reply,        \* the last answer of a checkout handler: [u, msg, text]
    sends,        \* bot.send_message calls of checkout_confirm, in order
    hist          \* the cart events handled so far, oldest first

vars == <<products, cart, orders, order_items, fsm, tasks, reply, sends, hist>>

(* ------------------------------ bounds ------------------------------- *)

\* cart:add / cart:addv / cart:inc events are drawn while the row holds less.
MaxQty == 2
\* Handlers in flight at once.
MaxTasks == 2
\* checkout:confirm events are drawn while fewer orders exist.
MaxOrders == 1
\* Cart events recorded in hist.
MaxHist == 5
\* Length of a text message of the phone step (SpecPhone).
MaxText == 10

(* --------------------------- configuration --------------------------- *)

Users == {1, 2}
\* config.py (not in the repository's files): the operators.  An entry 0 is
\* one checkout_confirm skips; operator 3 never writes to the bot.
ADMIN_IDS == <<1, 0, 3>>
ADMIN_USERNAME == "Owner"
Username == [u \in Users |-> IF u = 1 THEN "" ELSE "bob"]
\* The users whose cart and checkout events are drawn.
Shoppers == {2}

Pids == {1, 2}
\* The catalogue the admin has added (admin_add_variants): product 1 has no
\* variants, product 2 has the variant "M".
Catalog ==
    [p \in Pids |-> IF p = 1 THEN [price |-> 100, variants |-> <<>>]
                             ELSE [price |-> 250, variants |-> <<"M">>]]

Range(s) == {s[i] : i \in DOMAIN s}

\* The (product, variant) pairs a cart button of the bot can carry.
CartKeys ==
    UNION {IF Catalog[p].variants = <<>> THEN {<<p, "">>}
           ELSE {<<p, v>> : v \in Range(Catalog[p].variants)} : p \in Pids}

\* cart:addv buttons are made for the variants only.
VariantKeys == {k \in CartKeys : k[2] /= ""}

(* ------------------------------ helpers ------------------------------ *)

Lower(s) == IF s = "Owner" THEN "owner" ELSE s

is_admin_user(user_id, username) ==
    \/ user_id \in Range(ADMIN_IDS)
    \/ username /= "" /\ Lower(username) = Lower(ADMIN_USERNAME)

IsAdmin(u) == is_admin_user(u, Username[u])

(* ------------------------------- tasks ------------------------------- *)

NoKey == <<0, "">>
\* The pending writes of checkout_confirm's connection; n0 and cart0 are the
\* orders and the cart when it took the write lock.
NoTx == [order |-> <<>>, items |-> {}, del |-> FALSE, n0 |-> 0, cart0 |-> <<>>]

\* A handler that has just been dispatched.
NewTask(h, u) ==
    [h |-> h, u |-> u, pc |-> 1, key |-> NoKey, q |-> 0, data |-> <<>>,
     items |-> {}, total |-> 0, tx |-> NoTx, oid |-> 0, idx |-> 1, sent |-> FALSE]

InFlight == BagToSet(tasks)
NTasks == BagCardinality(tasks)
Spawn(t) == tasks (+) SetToBag({t})
Finish(t) == tasks (-) SetToBag({t})
\* No handler is in flight.
Alone == tasks = EmptyBag
Move(t, t2) == (tasks (-) SetToBag({t})) (+) SetToBag({t2})

\* checkout_confirm's connection holds the write lock from its first INSERT
\* to its COMMIT (or its rollback).
TxPcs == {5, 6, 7}
DbLocked == \E t \in InFlight : t.h = "checkout_confirm" /\ t.pc \in TxPcs

\* An answer; text is the message it answers (<<>> for a button).
SayTo(u, msg, text) == reply' = [u |-> u, msg |-> msg, text |-> text]
Say(u, msg) == SayTo(u, msg, <<>>)

(* ---------------------------- cart store ----------------------------- *)

UserRows(c, u) == {k \in DOMAIN c : k[1] = u}
Listed(u) ==
    {k \in UserRows(cart, u) : products[k[2]].exists /\ products[k[2]].active}

RECURSIVE SumRows(_, _, _)
SumRows(K, c, ps) ==
    IF K = {} THEN 0
    ELSE LET k == CHOOSE x \in K : TRUE
         IN  c[k] * ps[k[2]].price + SumRows(K \ {k}, c, ps)

\* cart_total without its test of p.active.
cart_total_any(u) ==
    SumRows({k \in UserRows(cart, u) : products[k[2]].exists}, cart, products)

\* SELECT c.qty, p.price FROM cart c JOIN products p ... WHERE p.active=1
cart_total(u) == SumRows(Listed(u), cart, products)

\* cart_items without its test of p.active.
cart_items_any(u) ==
    {[product_id |-> k[2], price |-> products[k[2]].price, qty |-> cart[k],
      variant |-> k[3]] : k \in {x \in UserRows(cart, u) : products[x[2]].exists}}

\* SELECT c.product_id, p.title, p.price, c.qty, c.variant ... WHERE p.active=1
\* (the title is the product's, one per id, and is left out).
cart_items(u) ==
    {[product_id |-> k[2], price |-> products[k[2]].price, qty |-> cart[k],
      variant |-> k[3]] : k \in Listed(u)}

RECURSIVE SumItems(_)
SumItems(S) ==
    IF S = {} THEN 0
    ELSE LET r == CHOOSE x \in S : TRUE
         IN  r.price * r.qty + SumItems(S \ {r})

Drop(c, K) == [k \in DOMAIN c \ K |-> c[k]]

\* INSERT OR REPLACE: the row is written with qty 1 whatever it held.
UpsertReplace(c, k) == [x \in DOMAIN c \cup {k} |-> IF x = k THEN 1 ELSE c[x]]

\* INSERT ... VALUES(?,?,?,1) ON CONFLICT ... DO UPDATE SET qty=qty+1
Upsert(c, k) ==
    IF k \in DOMAIN c THEN [c EXCEPT ![k] = @ + 1] ELSE c @@ (k :> 1)

\* UPDATE cart SET qty=qty+d WHERE user_id=? AND product_id=? AND variant=?
UpdateQty(c, k, d) ==
    IF k \in DOMAIN c THEN [c EXCEPT ![k] = @ + d] ELSE c

QtyOf(c, k) == IF k \in DOMAIN c THEN c[k] ELSE 0

\* Everything but the cart table (the answer of a cart handler is the cart
\* view rendered again, which is not kept).
FrameCart == UNCHANGED <<products, orders, order_items, fsm, sends, reply>>

\* cart:add:<pid>, up to its INSERT.
cart_add(u, p) ==
    /\ NTasks < MaxTasks
    /\ QtyOf(cart, <<u, p, "">>) < MaxQty
    /\ IF products[p].exists /\ products[p].active /\ products[p].variants = <<>>
       THEN tasks' = Spawn([NewTask("cart_add", u) EXCEPT
                               !.pc = 2, !.key = <<p, "">>])
       ELSE UNCHANGED tasks
    /\ UNCHANGED cart
    /\ FrameCart

cart_add_insert(t) ==
    /\ t.h = "cart_add" /\ t.pc = 2
    /\ ~DbLocked
    /\ cart' = Upsert(cart, <<t.u>> \o t.key)
    /\ tasks' = Finish(t)
    /\ FrameCart

\* cart:addv:<pid>:<variant>
cart_add_variant(u, k) ==
    /\ ~DbLocked
    /\ QtyOf(cart, <<u>> \o k) < MaxQty
    /\ cart' = Upsert(cart, <<u>> \o k)
    /\ UNCHANGED tasks
    /\ FrameCart

\* cart:inc:<pid>:<variant>
cart_inc(u, k) ==
    /\ ~DbLocked
    /\ QtyOf(cart, <<u>> \o k) < MaxQty
    /\ cart' = UpdateQty(cart, <<u>> \o k, 1)
    /\ UNCHANGED tasks
    /\ FrameCart

\* cart:dec:<pid>:<variant>, up to its DELETE or UPDATE.
cart_dec(u, k) ==
    /\ NTasks < MaxTasks
    /\ IF <<u>> \o k \in DOMAIN cart
       THEN tasks' = Spawn([NewTask("cart_dec", u) EXCEPT
                               !.pc = 2, !.key = k, !.q = cart[<<u>> \o k]])
       ELSE UNCHANGED tasks
    /\ UNCHANGED cart
    /\ FrameCart

\* cart_dec without its DELETE branch.
DecWriteAlways(c, k, q) == UpdateQty(c, k, -1)

\* The write cart_dec chooses from the qty it read.
DecWrite(c, k, q) == IF q <= 1 THEN Drop(c, {k}) ELSE UpdateQty(c, k, -1)

cart_dec_write(t) ==
    /\ t.h = "cart_dec" /\ t.pc = 2
    /\ ~DbLocked
    /\ cart' = DecWrite(cart, <<t.u>> \o t.key, t.q)
    /\ tasks' = Finish(t)
    /\ FrameCart

\* cart:del:<pid>:<variant>
cart_del(u, k) ==
    /\ ~DbLocked
    /\ cart' = Drop(cart, {<<u>> \o k})
    /\ UNCHANGED tasks
    /\ FrameCart

\* cart:clear
cart_clear(u) ==
    /\ ~DbLocked
    /\ cart' = Drop(cart, UserRows(cart, u))
    /\ UNCHANGED tasks
    /\ FrameCart

(* ------------------------------- admin ------------------------------- *)

FrameAdmin == UNCHANGED <<cart, orders, order_items, fsm, sends, reply>>

\* admin:toggle:<pid> from user u whose username is n at the time, up to its
\* UPDATE.  The task keeps the username its event carried in key[2].
admin_toggle_as(u, n, p) ==
    /\ NTasks < MaxTasks
    /\ IF is_admin_user(u, n) /\ products[p].exists
       THEN tasks' = Spawn([NewTask("admin_toggle", u) EXCEPT
                               !.pc = 2, !.key = <<p, n>>,
                               !.q = IF products[p].active THEN 1 ELSE 0])
       ELSE UNCHANGED tasks
    /\ UNCHANGED products
    /\ FrameAdmin

admin_toggle(u, p) == admin_toggle_as(u, Username[u], p)

\* UPDATE products SET active=? WHERE id=?
SetActive(ps, p, a) == IF ps[p].exists THEN [ps EXCEPT ![p].active = a] ELSE ps

admin_toggle_write(t) ==
    /\ t.h = "admin_toggle" /\ t.pc = 2
    /\ ~DbLocked
    /\ products' = SetActive(products, t.key[1], t.q /= 1)
    /\ tasks' = Finish(t)
    /\ FrameAdmin

\* The rows of cart that are deleted with product p.  ON DELETE CASCADE acts
\* on a connection that enforces the foreign keys; SQLite enforces them on
\* the connections that have run PRAGMA foreign_keys = ON, and db_execute's
\* connection has not.
CascadeRows(c, p) == {}

\* order_items with a foreign key to products that cascades.
OrderItemsCascade(items, p) == {r \in items : r.product_id /= p}

\* Table order_items after the delete of product p: its product_id is a
\* plain column, its only foreign key is order_id.
OrderItemsAfterDel(items, p) == items

\* admin:del:<pid> from user u whose username is n at the time:
\* DELETE FROM products WHERE id=?
admin_del_as(u, n, p) ==
    /\ ~DbLocked
    /\ IF is_admin_user(u, n)
       THEN /\ products' = [products EXCEPT ![p].exists = FALSE]
            /\ cart' = Drop(cart, CascadeRows(cart, p))
            /\ order_items' = OrderItemsAfterDel(order_items, p)
       ELSE UNCHANGED <<products, cart, order_items>>
    /\ UNCHANGED tasks
    /\ UNCHANGED <<orders, fsm, sends, reply>>

admin_del(u, p) == admin_del_as(u, Username[u], p)

(* ------------------------------- text -------------------------------- *)

\* A text is a sequence of characters.
Digits == {"0", "1", "2", "3", "4", "5", "6", "7", "8", "9"}
IsDigit(c) == c \in Digits
IsSpace(c) == c = " "

RECURSIVE LStrip(_)
LStrip(s) == IF s /= <<>> /\ IsSpace(Head(s)) THEN LStrip(Tail(s)) ELSE s

RECURSIVE RStrip(_)
RStrip(s) ==
    IF s /= <<>> /\ IsSpace(s[Len(s)]) THEN RStrip(SubSeq(s, 1, Len(s) - 1)) ELSE s

\* str.strip()
Strip(s) == RStrip(LStrip(s))

KeepPhoneChar(c) == IsDigit(c) \/ c = "+"
\* re.sub(r"[^\d+]", "", m.text.strip())
NormalizePhone(s) == SelectSeq(Strip(s), KeepPhoneChar)
\* len(re.sub(r"\D", "", phone))
DigitCount(s) == Len(SelectSeq(s, IsDigit))

MinPhoneDigits == 9
\* co_phone testing the length of the phone, pluses counted.
PhoneOkLength(phone) == Len(phone) >= MinPhoneDigits

\* The test of co_phone on the normalized phone.
PhoneOk(phone) == DigitCount(phone) >= MinPhoneDigits

(* ------------------------------ checkout ----------------------------- *)

NoSession == [state |-> "none", data |-> <<>>]

\* state.update_data(f=v) on the data d.
update_data(d, f, v) == [k \in DOMAIN d \cup {f} |-> IF k = f THEN v ELSE d[k]]

\* update_data and set_state of one wizard step.
Advance(u, f, v, next) ==
    fsm' = [fsm EXCEPT ![u] = [state |-> next, data |-> update_data(@.data, f, v)]]

\* The handler without its test of the items.
NoItemsNever(items) == FALSE

\* if not items
NoItems(items) == items = {}

FrameCheckout == UNCHANGED <<products, cart, orders, order_items, sends>>

\* checkout:start, up to its test of the items it read.
checkout_start(u) ==
    /\ NTasks < MaxTasks
    /\ IF NoItems(cart_items(u))
       THEN Say(u, "cart_empty") /\ UNCHANGED tasks
       ELSE tasks' = Spawn([NewTask("checkout_start", u) EXCEPT !.pc = 2])
            /\ UNCHANGED reply
    /\ UNCHANGED fsm
    /\ FrameCheckout

\* set_state(Checkout.full_name) with no state.clear() before it.
StartSessionKeep(s) == [s EXCEPT !.state = "full_name"]

\* state.clear(); state.set_state(Checkout.full_name)
StartSession(s) == [state |-> "full_name", data |-> <<>>]

checkout_start_reset(t) ==
    /\ t.h = "checkout_start" /\ t.pc = 2
    /\ fsm' = [fsm EXCEPT ![t.u] = StartSession(@)]
    /\ tasks' = Finish(t)
    /\ Say(t.u, "ask_full_name")
    /\ FrameCheckout

co_full_name(u, text) ==
    /\ fsm[u].state = "full_name"
    /\ Advance(u, "full_name", Strip(text), "phone")
    /\ SayTo(u, "ask_phone", text)
    /\ UNCHANGED tasks
    /\ FrameCheckout

co_phone(u, text) ==
    /\ fsm[u].state = "phone"
    /\ LET phone == NormalizePhone(text)
       IN  IF ~PhoneOk(phone)
           THEN SayTo(u, "bad_phone", text) /\ UNCHANGED fsm
           ELSE Advance(u, "phone", phone, "city") /\ SayTo(u, "ask_city", text)
    /\ UNCHANGED tasks
    /\ FrameCheckout

co_city(u, text) ==
    /\ fsm[u].state = "city"
    /\ Advance(u, "city", Strip(text), "np_type")
    /\ SayTo(u, "ask_np_type", text)
    /\ UNCHANGED tasks
    /\ FrameCheckout

\* np:type:<token>
co_np_type(u, token) ==
    /\ fsm[u].state = "np_type"
    /\ Advance(u, "np_type", token, "np_point")
    /\ Say(u, "ask_np_point")
    /\ UNCHANGED tasks
    /\ FrameCheckout

co_np_point(u, text) ==
    /\ fsm[u].state = "np_point"
    /\ Advance(u, "np_point", Strip(text), "payment")
    /\ SayTo(u, "ask_payment", text)
    /\ UNCHANGED tasks
    /\ FrameCheckout

PaymentText(p) == IF p = "cod" THEN "cash_on_delivery" ELSE "prepayment"

\* pay:<token>
co_payment(u, token) ==
    /\ fsm[u].state = "payment"
    /\ Advance(u, "payment", PaymentText(token), "comment")
    /\ Say(u, "ask_comment")
    /\ UNCHANGED tasks
    /\ FrameCheckout

\* A message in Checkout.comment, up to the reads of the preview: update_data
\* and get_data.
co_comment(u, text) ==
    /\ fsm[u].state = "comment"
    /\ NTasks < MaxTasks
    /\ LET d == update_data(fsm[u].data, "comment", Strip(text))
       IN  /\ fsm' = [fsm EXCEPT ![u].data = d]
           /\ tasks' = Spawn([NewTask("co_comment", u) EXCEPT !.pc = 2, !.data = d])
    /\ UNCHANGED reply
    /\ FrameCheckout

\* The fields the preview and the order read from the data.
Fields == {"full_name", "phone", "city", "np_type", "np_point", "payment", "comment"}

\* state.set_state(Checkout.confirm): the data stay as they are.
SetConfirm(s) == [s EXCEPT !.state = "confirm"]

\* After cart_items and cart_total (read for the preview text only): the
\* preview is built from the data (a missing field raises KeyError), then
\* set_state(Checkout.confirm).
co_comment_preview(t) ==
    /\ t.h = "co_comment" /\ t.pc = 2
    /\ IF Fields \subseteq DOMAIN t.data
       THEN fsm' = [fsm EXCEPT ![t.u] = SetConfirm(@)] /\ Say(t.u, "preview")
       ELSE UNCHANGED fsm /\ Say(t.u, "raised")
    /\ tasks' = Finish(t)
    /\ FrameCheckout

\* A cancel handler with no state filter.
CancelFilterAny(st) == TRUE

\* The filter of checkout_cancel: Checkout.confirm.
CancelFilter(st) == st = "confirm"

\* The update checkout:cancel: checkout_cancel handles it when its filter
\* passes; no other handler of the router matches the data, and an update
\* that no handler matches is dropped.
checkout_cancel(u) ==
    /\ IF CancelFilter(fsm[u].state)
       THEN fsm' = [fsm EXCEPT ![u] = NoSession] /\ Say(u, "cancelled")
       ELSE UNCHANGED <<fsm, reply>>
    /\ UNCHANGED tasks
    /\ FrameCheckout

(* --------------------------- admin: add a product -------------------- *)

\* int(t) of a text of digits.
DigitSeq == <<"0", "1", "2", "3", "4", "5", "6", "7", "8", "9">>
DigitValue(c) == (CHOOSE i \in 1..10 : DigitSeq[i] = c) - 1
RECURSIVE ParseInt(_)
ParseInt(t) ==
    IF t = <<>> THEN 0
    ELSE 10 * ParseInt(SubSeq(t, 1, Len(t) - 1)) + DigitValue(t[Len(t)])

\* parse_variants, for texts whose variants are one character each: "-" and
\* the empty text give no variant; else the parts between the separators
\* ",", ";" and " ", each kept once, in order.
IsSeparator(c) == c \in {",", ";", " "}
IsPart(c) == ~IsSeparator(c)
RECURSIVE Dedupe(_)
Dedupe(v) ==
    IF v = <<>> THEN <<>>
    ELSE LET r == Dedupe(SubSeq(v, 1, Len(v) - 1))
         IN  IF v[Len(v)] \in Range(r) THEN r ELSE Append(r, v[Len(v)])
parse_variants(text) ==
    IF Strip(text) \in {<<"-">>, <<>>} THEN <<>>
    ELSE Dedupe(SelectSeq(Strip(text), IsPart))

FrameAdd == UNCHANGED <<products, cart, orders, order_items, sends, reply, tasks>>

\* admin:add from user u whose username is n at the time.
admin_add_start(u, n) ==
    /\ IF is_admin_user(u, n)
       THEN fsm' = [fsm EXCEPT ![u] = [state |-> "add_photo", data |-> <<>>]]
       ELSE UNCHANGED fsm
    /\ FrameAdd

\* A message in AddProduct.photo: a photo, a document that is an image, or
\* anything else.
admin_add_photo_any(u, kind) ==
    /\ fsm[u].state = "add_photo"
    /\ IF kind \in {"photo", "image"}
       THEN Advance(u, "photo_file_id", kind, "add_title")
       ELSE UNCHANGED fsm
    /\ FrameAdd

admin_add_title(u, text) ==
    /\ fsm[u].state = "add_title"
    /\ Advance(u, "title", Strip(text), "add_price")
    /\ FrameAdd

admin_add_price(u, text) ==
    /\ fsm[u].state = "add_price"
    /\ LET t == SelectSeq(Strip(text), IsDigit)
       IN  IF t = <<>> THEN UNCHANGED fsm
           ELSE Advance(u, "price", ParseInt(t), "add_description")
    /\ FrameAdd

admin_add_desc(u, text) ==
    /\ fsm[u].state = "add_description"
    /\ Advance(u, "description", Strip(text), "add_variants")
    /\ FrameAdd

\* The fields the INSERT reads from the data.
AddFields == {"title", "price", "description", "photo_file_id"}

\* A message in AddProduct.variants from user u whose username is n at the
\* time, up to the INSERT: parse_variants and get_data (a missing field
\* raises KeyError).  The handler does not look at the user.
admin_add_variants(u, n, text) ==
    /\ fsm[u].state = "add_variants"
    /\ NTasks < MaxTasks
    /\ IF AddFields \subseteq DOMAIN fsm[u].data
       THEN tasks' = Spawn([NewTask("admin_add", u) EXCEPT
                               !.pc = 2, !.key = <<0, n>>,
                               !.data = update_data(fsm[u].data, "variants",
                                                    parse_variants(text))])
       ELSE UNCHANGED tasks
    /\ UNCHANGED <<products, cart, orders, order_items, sends, reply, fsm>>

\* The id of the next row of products (AUTOINCREMENT): one more than the
\* highest id, for a table whose row with the highest id ever given is there.
RECURSIVE MaxOf(_)
MaxOf(S) ==
    IF S = {} THEN 0
    ELSE LET x == CHOOSE y \in S : TRUE
             m == MaxOf(S \ {x})
         IN  IF x > m THEN x ELSE m
NewPid(ps) == MaxOf({q \in DOMAIN ps : ps[q].exists}) + 1

\* INSERT INTO products(...) VALUES(..., active = 1, ...); the table of the
\* model holds the ids of Pids.
admin_add_insert(t) ==
    /\ t.h = "admin_add" /\ t.pc = 2
    /\ ~DbLocked
    /\ NewPid(products) \in Pids
    /\ products' = [products EXCEPT ![NewPid(products)] =
                       [price |-> t.data["price"], variants |-> t.data["variants"],
                        active |-> TRUE, exists |-> TRUE]]
    /\ tasks' = Move(t, [t EXCEPT !.pc = 3])
    /\ UNCHANGED <<cart, orders, order_items, sends, reply, fsm>>

\* state.clear() and the answer.
admin_add_done(t) ==
    /\ t.h = "admin_add" /\ t.pc = 3
    /\ fsm' = [fsm EXCEPT ![t.u] = NoSession]
    /\ tasks' = Finish(t)
    /\ UNCHANGED <<products, cart, orders, order_items, sends, reply>>

(* ---------------------------- order commit --------------------------- *)

NpTypeText(x) == IF x = "branch" THEN "Viddilennia" ELSE "Poshtomat"

\* checkout:confirm in Checkout.confirm, up to the read of the items:
\* data = await state.get_data()
checkout_confirm(u) ==
    /\ fsm[u].state = "confirm"
    /\ NTasks < MaxTasks
    /\ tasks' = Spawn([NewTask("checkout_confirm", u) EXCEPT
                          !.pc = 2, !.data = fsm[u].data])
    /\ UNCHANGED <<fsm, reply>>
    /\ FrameCheckout

\* items = await cart_items(c.from_user.id)
confirm_items(t) ==
    /\ t.h = "checkout_confirm" /\ t.pc = 2
    /\ tasks' = Move(t, [t EXCEPT !.pc = 3, !.items = cart_items(t.u)])
    /\ UNCHANGED <<fsm, reply>>
    /\ FrameCheckout

\* The previews of user u that hist records (SpecLive), and the total of the
\* last one: an order written with the total the preview showed.
PreviewsOf(u) == SelectSeq(hist, LAMBDA e : e.op = "preview" /\ e.key = <<u>>)
PreviewedTotal(u) ==
    IF PreviewsOf(u) = <<>> THEN 0 ELSE PreviewsOf(u)[Len(PreviewsOf(u))].total

\* The total the order is written with.
OrderTotal(u) == cart_total(u)

\* total = await cart_total(c.from_user.id), then the test of the items and
\* the arguments of the INSERT (a missing field of the data raises KeyError).
confirm_total(t) ==
    /\ t.h = "checkout_confirm" /\ t.pc = 3
    /\ IF NoItems(t.items)
       THEN tasks' = Finish(t) /\ Say(t.u, "cart_empty")
       ELSE IF ~(Fields \subseteq DOMAIN t.data)
       THEN tasks' = Finish(t) /\ Say(t.u, "raised")
       ELSE tasks' = Move(t, [t EXCEPT !.pc = 4, !.total = OrderTotal(t.u)])
            /\ UNCHANGED reply
    /\ UNCHANGED fsm
    /\ FrameCheckout

OrderRow(t, id) ==
    [id |-> id, user_id |-> t.u, username |-> Username[t.u],
     data |-> [t.data EXCEPT !["np_type"] = NpTypeText(@)], total |-> t.total]

\* An INSERT that is committed at once, as db_execute's is.
VisibleAtOnce(ords, row) == Append(ords, row)

\* What the other connections see of the orders table after an INSERT of
\* checkout_confirm's connection that is not committed yet.
VisibleAfterInsert(ords, row) == ords

\* INSERT INTO orders ...; order_id = cur.lastrowid.  The statement takes the
\* write lock.
confirm_insert_order(t) ==
    /\ t.h = "checkout_confirm" /\ t.pc = 4
    /\ ~DbLocked
    /\ LET id == Len(orders) + 1
           row == OrderRow(t, id)
       IN  /\ tasks' = Move(t, [t EXCEPT !.pc = 5, !.oid = id,
                                   !.tx = [NoTx EXCEPT !.order = row, !.n0 = Len(orders),
                                                     !.cart0 = cart]])
           /\ orders' = VisibleAfterInsert(orders, row)
    /\ UNCHANGED <<products, cart, order_items, sends, fsm, reply>>

ItemRows(items, id) ==
    {[order_id |-> id, product_id |-> r.product_id, variant |-> r.variant,
      price |-> r.price, qty |-> r.qty] : r \in items}

\* for ... in items: INSERT INTO order_items ...
confirm_insert_items(t) ==
    /\ t.h = "checkout_confirm" /\ t.pc = 5
    /\ tasks' = Move(t, [t EXCEPT !.pc = 6, !.tx.items = ItemRows(t.items, t.oid)])
    /\ UNCHANGED <<fsm, reply>>
    /\ FrameCheckout

\* DELETE FROM cart with no WHERE.
ClearedAll(c, u, items) == DOMAIN c

\* The rows DELETE FROM cart WHERE user_id=? removes.
Cleared(c, u, items) == UserRows(c, u)

\* DELETE FROM cart WHERE user_id=?
confirm_delete_cart(t) ==
    /\ t.h = "checkout_confirm" /\ t.pc = 6
    /\ tasks' = Move(t, [t EXCEPT !.pc = 7, !.tx.del = TRUE])
    /\ UNCHANGED <<fsm, reply>>
    /\ FrameCheckout

\* The step after the commit: the first operator of ADMIN_IDS that is not 0,
\* from index i on, or the fallback.
RECURSIVE NextAdmin(_)
NextAdmin(i) ==
    IF i > Len(ADMIN_IDS) THEN 0
    ELSE IF ADMIN_IDS[i] /= 0 THEN i ELSE NextAdmin(i + 1)

AfterAttempt(t, i) ==
    IF NextAdmin(i) = 0 THEN [t EXCEPT !.pc = 9] ELSE [t EXCEPT !.pc = 8, !.idx = NextAdmin(i)]

\* A commit that does not cover the INSERTs of the items.
CommittedItemsNone(its, tx) == its

\* Table order_items after the commit: the items were inserted on the
\* connection that inserted the order.
CommittedItems(its, tx) == its \cup tx.items

\* await db.commit()
confirm_commit(t) ==
    /\ t.h = "checkout_confirm" /\ t.pc = 7
    /\ orders' = Append(orders, t.tx.order)
    /\ order_items' = CommittedItems(order_items, t.tx)
    /\ cart' = Drop(cart, Cleared(cart, t.u, t.items))
    /\ tasks' = Move(t, AfterAttempt([t EXCEPT !.tx = NoTx], 1))
    /\ UNCHANGED <<products, sends, fsm, reply>>

\* An exception inside `async with aiosqlite.connect(...)` (the INSERT, the
\* DELETE or the COMMIT fails): the connection is closed without a commit,
\* which rolls its writes back, and the handler ends.
confirm_fail(t) ==
    /\ t.h = "checkout_confirm" /\ t.pc \in {4} \cup TxPcs
    /\ tasks' = Finish(t)
    /\ Say(t.u, IF t.pc \in TxPcs THEN "rolled_back" ELSE "raised")
    /\ UNCHANGED fsm
    /\ FrameCheckout

\* A failed send that is not caught: the exception ends the handler.
AfterSendRaise(t, ok) ==
    IF ok THEN [t EXCEPT !.pc = 10, !.sent = TRUE] ELSE [t EXCEPT !.pc = 0]

\* The loop without its break.
AfterSendNoBreak(t, ok) == AfterAttempt(t, t.idx + 1)

\* sent = True; break -- or the except branch and the next admin_id.
AfterSend(t, ok) ==
    IF ok THEN [t EXCEPT !.pc = 10, !.sent = TRUE] ELSE AfterAttempt(t, t.idx + 1)

\* bot.send_message(admin_id, admin_text): it succeeds or raises.
confirm_notify(t, ok) ==
    /\ t.h = "checkout_confirm" /\ t.pc = 8
    /\ sends' = Append(sends, [order |-> t.oid, to |-> ADMIN_IDS[t.idx],
                               fallback |-> FALSE, ok |-> ok])
    /\ tasks' = Move(t, AfterSend(t, ok))
    /\ UNCHANGED <<products, cart, orders, order_items, fsm, reply>>

\* if not sent: bot.send_message(c.message.chat.id, admin_text)
confirm_fallback(t, ok) ==
    /\ t.h = "checkout_confirm" /\ t.pc = 9
    /\ sends' = Append(sends, [order |-> t.oid, to |-> t.u,
                               fallback |-> TRUE, ok |-> ok])
    /\ tasks' = Move(t, [t EXCEPT !.pc = 10])
    /\ UNCHANGED <<products, cart, orders, order_items, fsm, reply>>

\* state.clear() and the answer with the order's number.
confirm_done(t) ==
    /\ t.h = "checkout_confirm" /\ t.pc = 10
    /\ fsm' = [fsm EXCEPT ![t.u] = NoSession]
    /\ tasks' = Finish(t)
    /\ SayTo(t.u, "order_done", <<ToString(t.oid)>>)
    /\ FrameCheckout

(* --------------------------- specifications -------------------------- *)

\* The database after db_init and the admin's additions of the catalogue.
InitDb ==
    /\ products = [p \in Pids |-> [price |-> Catalog[p].price,
                                   variants |-> Catalog[p].variants,
                                   active |-> TRUE, exists |-> TRUE]]
    /\ cart = <<>>
    /\ orders = <<>>
    /\ order_items = {}

InitRest ==
    /\ tasks = EmptyBag
    /\ reply = [u |-> 0, msg |-> "none", text |-> <<>>]
    /\ sends = <<>>
    /\ hist = <<>>

Init ==
    /\ InitDb
    /\ fsm = [u \in Users |-> NoSession]
    /\ InitRest

\* The texts and tokens of the wizard's events.
GoodPhone == <<"0", "9", "8", "1", "2", "3", "4", "5", "6", "7">>
BadPhone == <<"1", "2", "3", "4", "5">>
Texts == {<<"a">>}
Phones == {GoodPhone, BadPhone}
NpTokens == {"branch", "locker"}
PayTokens == {"cod", "prepay"}

WizardOn(u, texts, phones, nps, pays) ==
    \/ \E x \in texts : co_full_name(u, x)
    \/ \E x \in phones : co_phone(u, x)
    \/ \E x \in texts : co_city(u, x)
    \/ \E x \in nps : co_np_type(u, x)
    \/ \E x \in texts : co_np_point(u, x)
    \/ \E x \in pays : co_payment(u, x)
    \/ \E x \in texts : co_comment(u, x)

Wizard(u, phones, nps, pays) == WizardOn(u, Texts, phones, nps, pays)

Commit(t) ==
    \/ confirm_items(t)
    \/ confirm_total(t)
    \/ confirm_insert_order(t)
    \/ confirm_insert_items(t)
    \/ confirm_delete_cart(t)
    \/ confirm_commit(t)
    \/ confirm_fail(t)
    \/ \E ok \in BOOLEAN : confirm_notify(t, ok)
    \/ \E ok \in BOOLEAN : confirm_fallback(t, ok)
    \/ confirm_done(t)

\* Spec: a shopper's checkout from the empty cart to the order, the
\* handlers interleaving; the cart holds the variant rows, and the admin
\* toggles their product.  A checkout:confirm is drawn while no handler is
\* in flight.
Next ==
    /\ UNCHANGED hist
    /\ \/ \E u \in Shoppers, k \in VariantKeys : cart_add_variant(u, k)
       \/ \E u \in Shoppers : cart_clear(u)
       \/ \E u \in Shoppers : checkout_start(u)
       \/ \E t \in InFlight : checkout_start_reset(t)
       \/ \E u \in Users, k \in VariantKeys : admin_toggle(u, k[1])
       \/ \E t \in InFlight : admin_toggle_write(t)
       \/ \E u \in Shoppers : Wizard(u, Phones, {"branch"}, {"cod"})
       \/ \E t \in InFlight : co_comment_preview(t)
       \/ \E u \in Shoppers : checkout_cancel(u)
       \/ \E u \in Shoppers :
             Alone /\ Len(orders) < MaxOrders /\ checkout_confirm(u)
       \/ \E t \in InFlight : Commit(t)

Spec == Init /\ [][Next]_vars

\* SpecCart: the cart store and the catalogue toggles, handlers interleaving.
NextCart ==
    /\ UNCHANGED hist
    /\ \/ \E u \in Shoppers, p \in Pids : cart_add(u, p)
       \/ \E t \in InFlight : cart_add_insert(t)
       \/ \E u \in Shoppers, k \in VariantKeys : cart_add_variant(u, k)
       \/ \E u \in Shoppers, k \in CartKeys : cart_inc(u, k)
       \/ \E u \in Shoppers, k \in CartKeys : cart_dec(u, k)
       \/ \E t \in InFlight : cart_dec_write(t)
       \/ \E u \in Shoppers, k \in CartKeys : cart_del(u, k)
       \/ \E u \in Shoppers : cart_clear(u)
       \/ \E u \in Users, p \in Pids : admin_toggle(u, p)
       \/ \E t \in InFlight : admin_toggle_write(t)
       \/ \E u \in Users, p \in Pids : admin_del(u, p)

SpecCart == Init /\ [][NextCart]_vars

\* SpecCommit: the order commit, a checkout:confirm drawn while no handler
\* is in flight.  It starts where the wizard has left the
\* shopper: in Checkout.confirm with the seven fields, the cart holding
\* 2 x product 1 and 1 x product 2 ("M").
ConfirmData ==
    [f \in Fields |->
        CASE f = "phone" -> GoodPhone
          [] f = "np_type" -> "branch"
          [] f = "payment" -> PaymentText("cod")
          [] OTHER -> <<"a">>]

InitCommit ==
    /\ InitDb!1
    /\ cart = [k \in {<<u>> \o x : u \in Shoppers, x \in CartKeys} |->
                  IF k[2] = 1 THEN 2 ELSE 1]
    /\ orders = <<>>
    /\ order_items = {}
    /\ fsm = [u \in Users |-> IF u \in Shoppers
                              THEN [state |-> "confirm", data |-> ConfirmData]
                              ELSE NoSession]
    /\ InitRest

NextCommit ==
    /\ UNCHANGED hist
    /\ \/ \E u \in Shoppers, k \in VariantKeys : cart_add_variant(u, k)
       \/ \E u \in Shoppers, k \in CartKeys : cart_inc(u, k)
       \/ \E u \in Shoppers, k \in CartKeys : cart_del(u, k)
       \/ \E u \in Shoppers : cart_clear(u)
       \/ \E u \in Users, p \in Pids : admin_toggle(u, p)
       \/ \E t \in InFlight : admin_toggle_write(t)
       \/ \E u \in Shoppers : checkout_cancel(u)
       \/ \E u \in Shoppers :
             Alone /\ Len(orders) < MaxOrders /\ checkout_confirm(u)
       \/ \E t \in InFlight : Commit(t)

SpecCommit == InitCommit /\ [][NextCommit]_vars

\* SpecCommitFair: SpecCommit where a handler in flight is resumed: the
\* event loop runs every task that is ready, and a database call or a call
\* of the Bot API returns or raises.
SpecCommitFair ==
    SpecCommit /\ WF_vars(UNCHANGED hist /\ \E t \in InFlight : Commit(t))

\* SpecOrders: two users in Checkout.confirm, each with a cart row; their
\* commits (every send to an operator succeeding), the cart events and the
\* admin's toggles and deletes of the products follow in any order.
TwoCarts == [k \in {<<1, 1, "">>, <<2, 2, "M">>} |-> 1]

InitOrders ==
    /\ InitDb!1
    /\ cart = TwoCarts
    /\ orders = <<>>
    /\ order_items = {}
    /\ fsm = [u \in Users |-> [state |-> "confirm", data |-> ConfirmData]]
    /\ InitRest

NextOrders ==
    /\ UNCHANGED hist
    /\ \/ \E u \in Users, k \in CartKeys : cart_inc(u, k)
       \/ \E u \in Users, k \in CartKeys : cart_del(u, k)
       \/ \E u \in Users : admin_toggle(u, 1)
       \/ \E t \in InFlight : admin_toggle_write(t)
       \/ \E u \in Users : admin_del(u, 2)
       \/ \E u \in Users : Alone /\ checkout_confirm(u)
       \/ \E t \in InFlight :
             \/ confirm_items(t)
             \/ confirm_total(t)
             \/ confirm_insert_order(t)
             \/ confirm_insert_items(t)
             \/ confirm_delete_cart(t)
             \/ confirm_commit(t)
             \/ confirm_notify(t, TRUE)
             \/ confirm_done(t)

SpecOrders == InitOrders /\ [][NextOrders]_vars

\* SpecTwo: the two users of SpecOrders, their checkout:confirm handlers
\* interleaving with each other (a user's second checkout:confirm is drawn
\* when the first has ended), with the cart events of user 1 and with a new
\* checkout of user 1.
Confirming(u) == \E t \in InFlight : t.h = "checkout_confirm" /\ t.u = u

NextTwo ==
    /\ UNCHANGED hist
    /\ \/ \E k \in CartKeys : cart_inc(1, k)
       \/ \E k \in CartKeys : cart_del(1, k)
       \/ \E u \in Users : checkout_cancel(u)
       \/ checkout_start(1)
       \/ \E t \in InFlight : checkout_start_reset(t)
       \/ Wizard(1, {GoodPhone}, {"branch"}, {"cod"})
       \/ \E t \in InFlight : co_comment_preview(t)
       \/ \E u \in Users : ~Confirming(u) /\ checkout_confirm(u)
       \/ \E t \in InFlight :
             \/ confirm_items(t)
             \/ confirm_total(t)
             \/ confirm_insert_order(t)
             \/ confirm_insert_items(t)
             \/ confirm_delete_cart(t)
             \/ confirm_commit(t)
             \/ confirm_fail(t)
             \/ confirm_notify(t, TRUE)
             \/ confirm_done(t)

SpecTwo == InitOrders /\ [][NextTwo]_vars

\* SpecLive: from the comment step to the order, with cart edits and
\* toggles of the products after the preview and before checkout:confirm
\* (they are drawn while no handler is in flight); every send to an
\* operator succeeds.  hist records what the
\* preview showed (the cart_items and cart_total co_comment read) and what
\* the cart held when a checkout:confirm was dispatched.
CartSeen(op, u) ==
    hist' = Append(hist, [op |-> op, key |-> <<u>>,
                          items |-> cart_items(u), total |-> cart_total(u)])

InitLive ==
    /\ InitDb!1
    /\ cart = [k \in {<<u>> \o x : u \in Shoppers, x \in CartKeys} |-> 1]
    /\ orders = <<>>
    /\ order_items = {}
    /\ fsm = [u \in Users |->
                 IF u \in Shoppers
                 THEN [state |-> "comment",
                       data |-> [f \in Fields \ {"comment"} |-> ConfirmData[f]]]
                 ELSE NoSession]
    /\ InitRest

NextLive ==
    \/ /\ UNCHANGED hist
       /\ \/ \E u \in Shoppers, x \in Texts : co_comment(u, x)
          \/ \E u \in Shoppers, k \in VariantKeys : Alone /\ cart_add_variant(u, k)
          \/ \E u \in Shoppers, k \in CartKeys : Alone /\ cart_inc(u, k)
          \/ \E u \in Shoppers, k \in CartKeys : Alone /\ cart_del(u, k)
          \/ \E u \in Users, p \in Pids : Alone /\ admin_toggle(u, p)
          \/ \E t \in InFlight : admin_toggle_write(t)
          \/ \E t \in InFlight :
                \/ confirm_items(t)
                \/ confirm_total(t)
                \/ confirm_insert_order(t)
                \/ confirm_insert_items(t)
                \/ confirm_delete_cart(t)
                \/ confirm_commit(t)
                \/ confirm_notify(t, TRUE)
                \/ confirm_done(t)
    \/ \E t \in InFlight : co_comment_preview(t) /\ CartSeen("preview", t.u)
    \/ \E u \in Shoppers :
          /\ Alone /\ Len(orders) < MaxOrders /\ Len(hist) < MaxHist
          /\ checkout_confirm(u) /\ CartSeen("confirm", u)

SpecLive == InitLive /\ [][NextLive]_vars

\* SpecDouble: SpecCommit's shopper in Checkout.confirm pressing the
\* confirm button again while the first checkout_confirm is in flight (the
\* Dispatcher starts a task per update); every send to an operator succeeds.
NextDouble ==
    /\ UNCHANGED hist
    /\ \/ \E u \in Shoppers : checkout_confirm(u)
       \/ \E u \in Shoppers, k \in CartKeys : cart_del(u, k)
       \/ \E u \in Shoppers : checkout_cancel(u)
       \/ \E t \in InFlight :
             \/ confirm_items(t)
             \/ confirm_total(t)
             \/ confirm_insert_order(t)
             \/ confirm_insert_items(t)
             \/ confirm_delete_cart(t)
             \/ confirm_commit(t)
             \/ confirm_notify(t, TRUE)
             \/ confirm_done(t)

SpecDouble == InitCommit /\ [][NextDouble]_vars

\* SpecAdmin: the admin handlers.  The table starts with product 1; the
\* wizard adds product 2.  User 1 is an operator by id; user 2 is the
\* account that holds the username ADMIN_USERNAME and can change it (every
\* update carries the username the account has at the time).  Product 1 is
\* deleted only while product 2 is there, so the row with the highest id is
\* always in the table.
Names == [u \in Users |-> IF u = 1 THEN {""} ELSE {"bob", ADMIN_USERNAME}]
PriceTexts == {<<"2", "5", "0">>, <<"a">>}
VariantTexts == {<<"-">>, <<"M", ",", "M">>}

InitAdmin ==
    /\ products = [p \in Pids |->
                      IF p = 1
                      THEN [price |-> Catalog[p].price, variants |-> Catalog[p].variants,
                            active |-> TRUE, exists |-> TRUE]
                      ELSE [price |-> 0, variants |-> <<>>,
                            active |-> FALSE, exists |-> FALSE]]
    /\ cart = <<>>
    /\ orders = <<>>
    /\ order_items = {}
    /\ fsm = [u \in Users |-> NoSession]
    /\ InitRest

NextAdd ==
    /\ UNCHANGED hist
    /\ \/ \E u \in Users : \E n \in Names[u] : admin_add_start(u, n)
       \/ \E u \in Users, kind \in {"photo", "image", "text"} :
             admin_add_photo_any(u, kind)
       \/ \E u \in Users, x \in Texts : admin_add_title(u, x)
       \/ \E u \in Users, x \in PriceTexts : admin_add_price(u, x)
       \/ \E u \in Users, x \in Texts : admin_add_desc(u, x)
       \/ \E u \in Users : \E n \in Names[u], x \in VariantTexts :
             admin_add_variants(u, n, x)
       \/ \E t \in InFlight : admin_add_insert(t)
       \/ \E t \in InFlight : admin_add_done(t)
       \/ \E u \in Users : \E n \in Names[u], p \in Pids : admin_toggle_as(u, n, p)
       \/ \E t \in InFlight : admin_toggle_write(t)
       \/ \E u \in Users : \E n \in Names[u] :
             products[2].exists /\ admin_del_as(u, n, 1)

SpecAdmin == InitAdmin /\ [][NextAdd]_vars

\* SpecSeq: cart events of a shopper handled one after another (an event is
\* drawn when no handler is in flight); hist records them.  The buttons
\* cart:inc and cart:dec of a row are those of a cart view that showed it: the
\* row has been added before.
CartEvent(op, k) == hist' = Append(hist, [op |-> op, key |-> k])
Shown(k) == \E i \in 1..Len(hist) : hist[i] = [op |-> "add", key |-> k]

NextSeq ==
    \/ \E u \in Shoppers, k \in CartKeys :
          /\ Alone /\ Len(hist) < MaxHist
          /\ \/ k[2] = "" /\ cart_add(u, k[1]) /\ CartEvent("add", <<u>> \o k)
             \/ k[2] /= "" /\ cart_add_variant(u, k) /\ CartEvent("add", <<u>> \o k)
             \/ Shown(<<u>> \o k) /\ cart_inc(u, k) /\ CartEvent("inc", <<u>> \o k)
             \/ Shown(<<u>> \o k) /\ cart_dec(u, k) /\ CartEvent("dec", <<u>> \o k)
    \/ \E t \in InFlight : cart_add_insert(t) /\ UNCHANGED hist
    \/ \E t \in InFlight : cart_dec_write(t) /\ UNCHANGED hist

SpecSeq == Init /\ [][NextSeq]_vars

\* SpecConc: the cart events of SpecSeq with the handlers interleaving: an
\* event is drawn while another handler is in flight.
NextConc ==
    \/ \E u \in Shoppers, k \in CartKeys :
          /\ Len(hist) < MaxHist
          /\ \/ k[2] = "" /\ cart_add(u, k[1]) /\ CartEvent("add", <<u>> \o k)
             \/ k[2] /= "" /\ cart_add_variant(u, k) /\ CartEvent("add", <<u>> \o k)
             \/ Shown(<<u>> \o k) /\ cart_inc(u, k) /\ CartEvent("inc", <<u>> \o k)
             \/ Shown(<<u>> \o k) /\ cart_dec(u, k) /\ CartEvent("dec", <<u>> \o k)
    \/ \E t \in InFlight : cart_add_insert(t) /\ UNCHANGED hist
    \/ \E t \in InFlight : cart_dec_write(t) /\ UNCHANGED hist

SpecConc == Init /\ [][NextConc]_vars

\* SpecPhone: the phone step.  It starts where co_full_name has left the
\* shopper; the first message is any text of at most MaxText characters, a
\* rejected message is followed by the same text again or by a good phone.
PhoneAlphabet == {"0", "+", " "}
PhoneIntl ==
    <<"+", "3", "8", " ", "(", "0", "9", "8", ")", " ", "1", "2", "3", "-",
      "4", "5", "-", "6", "7">>
PhoneTexts ==
    UNION {[1..n -> PhoneAlphabet] : n \in 1..MaxText} \cup Phones \cup {PhoneIntl}

InitPhone ==
    /\ InitDb!1
    /\ cart = [k \in {<<u>> \o x : u \in Shoppers, x \in VariantKeys} |-> 1]
    /\ orders = <<>>
    /\ order_items = {}
    /\ fsm = [u \in Users |->
                 IF u \in Shoppers
                 THEN [state |-> "phone", data |-> update_data(<<>>, "full_name", <<"a">>)]
                 ELSE NoSession]
    /\ InitRest

NextPhone ==
    /\ UNCHANGED hist
    /\ \/ /\ reply.msg /= "bad_phone"
          /\ \E u \in Shoppers, x \in PhoneTexts : co_phone(u, x)
       \/ /\ reply.msg = "bad_phone"
          /\ \E u \in Shoppers, x \in {reply.text, GoodPhone} : co_phone(u, x)
       \/ \E u \in Shoppers, x \in Texts : co_city(u, x)

SpecPhone == InitPhone /\ [][NextPhone]_vars

\* SpecWizard: the wizard on every input its filters let through.  The
\* texts include one that is empty after strip(); the data of a callback
\* query is what the client sends (the Bot API does not promise that it is
\* the data of a button of the message), so the tokens after "np:type:" and
\* "pay:" include one that no button carries.
TextsAny == Texts \cup {<<" ">>}
NpData == NpTokens \cup {"parcel"}
PayData == PayTokens \cup {"card"}

NextWizard ==
    /\ UNCHANGED hist
    /\ \/ \E u \in Shoppers, k \in VariantKeys : cart_add_variant(u, k)
       \/ \E u \in Shoppers : checkout_start(u)
       \/ \E t \in InFlight : checkout_start_reset(t)
       \/ \E u \in Shoppers : WizardOn(u, TextsAny, {GoodPhone}, NpData, PayData)
       \/ \E t \in InFlight : co_comment_preview(t)
       \/ \E u \in Shoppers : checkout_cancel(u)

SpecWizard == Init /\ [][NextWizard]_vars

(* ------------------------------- claims ------------------------------ *)

AllRows == {<<u>> \o k : u \in Users, k \in CartKeys}
OrdersSet == Range(orders)
ItemsOf(id) == {i \in order_items : i.order_id = id}

\* C5 (SpecCart): every cart row has qty >= 1, in every state the cart
\* handlers can reach, interleaved or not.
C5_QtyAtLeastOne == \A k \in DOMAIN cart : cart[k] >= 1

\* The quantity after one more event, as C6 states it: the net of the
\* increments and decrements, floored at 0 (0 is the deleted row).
StepNet(q, op) ==
    CASE op = "dec" -> IF q <= 1 THEN 0 ELSE q - 1
      [] OTHER -> q + 1

\* The same, an increment of a row that does not exist being a no-op.
StepRow(q, op) ==
    CASE op = "dec" -> IF q <= 1 THEN 0 ELSE q - 1
      [] op = "inc" -> IF q = 0 THEN 0 ELSE q + 1
      [] OTHER -> q + 1

RECURSIVE ReplayNet(_, _)
ReplayNet(h, k) ==
    IF h = <<>> THEN 0
    ELSE LET q == ReplayNet(SubSeq(h, 1, Len(h) - 1), k)
             e == h[Len(h)]
         IN  IF e.key = k THEN StepNet(q, e.op) ELSE q

RECURSIVE ReplayRow(_, _)
ReplayRow(h, k) ==
    IF h = <<>> THEN 0
    ELSE LET q == ReplayRow(SubSeq(h, 1, Len(h) - 1), k)
             e == h[Len(h)]
         IN  IF e.key = k THEN StepRow(q, e.op) ELSE q

\* C6 as stated (SpecSeq): after any sequence of add/increment/decrement
\* events handled one after another, the stored quantity of a row is the net
\* of the increments and decrements floored at 0, no row meaning 0.
C6_NetFloored ==
    Alone => \A k \in AllRows : QtyOf(cart, k) = ReplayNet(hist, k)

\* C6 as amended (SpecSeq): the same with an increment of a row that does
\* not exist being a no-op, like a decrement of it; a stored row is never
\* below 1.
C6_NetWhileRowExists ==
    Alone => \A k \in AllRows :
                /\ QtyOf(cart, k) = ReplayRow(hist, k)
                /\ k \in DOMAIN cart => cart[k] >= 1

\* C6's case: a row was added, decremented away and then incremented.
C6_Witness ==
    /\ Alone
    /\ \E k \in AllRows, i \in 1..Len(hist) :
          /\ i + 2 <= Len(hist)
          /\ hist[i] = [op |-> "add", key |-> k]
          /\ hist[i + 1] = [op |-> "dec", key |-> k]
          /\ hist[i + 2] = [op |-> "inc", key |-> k]
          /\ k \notin DOMAIN cart

\* The rows list(user) returns: those of the user whose product is there
\* and active.
EligibleRows(u) ==
    {k \in DOMAIN cart : k[1] = u /\ products[k[2]].exists /\ products[k[2]].active}

RECURSIVE SumPriceQty(_)
SumPriceQty(K) ==
    IF K = {} THEN 0
    ELSE LET k == CHOOSE x \in K : TRUE
         IN  Catalog[k[2]].price * cart[k] + SumPriceQty(K \ {k})

\* C7 (SpecCart): total(user) is the sum of price x qty over the rows
\* list(user) returns, which are the rows of the active products; a toggle
\* of a product changes no cart row (so a deactivated product's rows are
\* listed again, with their quantities, once it is active again).
C7_TotalOfListed ==
    /\ [](\A u \in Users :
            /\ {<<u, r.product_id, r.variant>> : r \in cart_items(u)} = EligibleRows(u)
            /\ \A r \in cart_items(u) :
                  /\ r.qty = cart[<<u, r.product_id, r.variant>>]
                  /\ r.price = Catalog[r.product_id].price
            /\ cart_total(u) = SumPriceQty(EligibleRows(u)))
    /\ [][(\E t \in InFlight : admin_toggle_write(t)) => cart' = cart]_vars

\* C7's case: a product with a cart row is deactivated while another row of
\* the user is listed.
C7_Witness ==
    \E u \in Users :
        /\ \E k \in DOMAIN cart : k[1] = u /\ products[k[2]].exists /\ ~products[k[2]].active
        /\ cart_items(u) /= {}
        /\ cart_total(u) > 0

RECURSIVE CountDigits(_)
CountDigits(s) ==
    IF s = <<>> THEN 0
    ELSE (IF Head(s) \in Digits THEN 1 ELSE 0) + CountDigits(Tail(s))

RECURSIVE DigitsAndPlus(_)
DigitsAndPlus(s) ==
    IF s = <<>> THEN <<>>
    ELSE (IF Head(s) \in Digits \cup {"+"} THEN <<Head(s)>> ELSE <<>>)
         \o DigitsAndPlus(Tail(s))

\* C8 (SpecPhone): a message in the phone step is accepted iff it holds at
\* least 9 digits; accepted, its digits and pluses are stored as the phone
\* and the step becomes city; rejected, the session stays as it is.
C8_PhoneStep ==
    [][\A u \in Shoppers :
          fsm[u].state = "phone" /\ co_phone(u, reply'.text) =>
             IF CountDigits(reply'.text) >= 9
             THEN /\ fsm'[u].state = "city"
                  /\ fsm'[u].data =
                        update_data(fsm[u].data, "phone", DigitsAndPlus(reply'.text))
                  /\ \A v \in Users \ {u} : fsm'[v] = fsm[v]
             ELSE fsm' = fsm /\ reply'.msg = "bad_phone"]_vars

\* C8's case: a text of exactly 9 digits and a character that is stripped
\* has been accepted.
C8_Witness ==
    \E u \in Shoppers :
        /\ reply = [u |-> u, msg |-> "ask_city", text |-> reply.text]
        /\ CountDigits(reply.text) = 9
        /\ Len(reply.text) > 9
        /\ fsm[u].state = "city"
        /\ Len(fsm[u].data["phone"]) < Len(reply.text)

StepOrder ==
    <<"full_name", "phone", "city", "np_type", "np_point", "payment", "comment",
      "confirm">>
StepIndex(st) == CHOOSE i \in 1..Len(StepOrder) : StepOrder[i] = st
FieldOf(st) == st

\* C9 (Spec): the step of a session changes only by one step forward in
\* the fixed order, the field of the step left being stored; or to
\* full_name by a checkout start; or from confirm to no session (commit or
\* cancel).
C9_StepsForward ==
    [][\A u \in Users :
          fsm'[u].state /= fsm[u].state =>
             \/ /\ fsm[u].state /= "none" /\ fsm'[u].state /= "none"
                /\ StepIndex(fsm'[u].state) = StepIndex(fsm[u].state) + 1
                /\ FieldOf(fsm[u].state) \in DOMAIN fsm'[u].data
             \/ /\ fsm'[u].state = "full_name"
                /\ \E t \in InFlight : t.u = u /\ checkout_start_reset(t)
             \/ fsm[u].state = "confirm" /\ fsm'[u].state = "none"]_vars

\* C10 (Spec): a checkout start of a user none of whose cart rows is of an
\* active product is answered "cart is empty": no session is made then or
\* later by this event (no handler is left in flight), and the sessions
\* stay as they are.
C10_StartRejected ==
    [][\A u \in Users :
          checkout_start(u) /\ EligibleRows(u) = {} =>
             /\ fsm' = fsm
             /\ tasks' = tasks
             /\ reply' = [u |-> u, msg |-> "cart_empty", text |-> <<>>]]_vars

\* C10's case: a start was rejected while the user has a session and a cart
\* row of a deactivated product.
C10_Witness ==
    \E u \in Users :
        /\ reply.u = u /\ reply.msg = "cart_empty"
        /\ fsm[u].state \notin {"none", "full_name"}
        /\ UserRows(cart, u) /= {}
        /\ EligibleRows(u) = {}

\* C1 (SpecCommit): when checkout_confirm fails after its INSERT of the
\* order (before the items, the DELETE or the COMMIT), the orders are those
\* of before the attempt, no item of the attempt is stored, the cart is the
\* one of before the attempt and the sessions are untouched.
C1_RollbackOnFailure ==
    [][\A t \in InFlight :
          confirm_fail(t) /\ t.pc \in TxPcs =>
             /\ Len(orders') = t.tx.n0
             /\ \A o \in Range(orders') : o.id /= t.oid
             /\ \A i \in order_items' : i.order_id /= t.oid
             /\ cart' = t.tx.cart0
             /\ fsm' = fsm]_vars

\* C1's case: the commit was rolled back; no order, the cart as it was, the
\* shopper still in confirm with no handler in flight, so that
\* checkout:confirm is handled again.
C1_Witness ==
    \E u \in Shoppers :
        /\ reply = [u |-> u, msg |-> "rolled_back", text |-> <<>>]
        /\ orders = <<>> /\ order_items = {}
        /\ UserRows(cart, u) /= {}
        /\ fsm[u].state = "confirm"
        /\ Alone

\* C2 (SpecCommit): the total of every order is the sum of price x qty of
\* its items.
C2_TotalIsSumOfItems ==
    \A o \in OrdersSet : o.total = SumItems(ItemsOf(o.id))

\* C3 (SpecCommit): every order has an item; and when checkout_confirm has
\* read no item it ends there: no order, no item, the sessions as they are.
C3_EmptyCartAborts ==
    /\ [](\A o \in OrdersSet : ItemsOf(o.id) /= {})
    /\ [][\A t \in InFlight :
             confirm_total(t) /\ t.items = {} =>
                /\ orders' = orders /\ order_items' = order_items
                /\ fsm' = fsm
                /\ tasks' = Finish(t)
                /\ reply'.msg = "cart_empty"]_vars

\* C3's case: the cart was emptied in confirm, a checkout:confirm was
\* answered "cart is empty", and the session is still in confirm.
C3_Witness ==
    \E u \in Shoppers :
        /\ reply = [u |-> u, msg |-> "cart_empty", text |-> <<>>]
        /\ UserRows(cart, u) = {}
        /\ orders = <<>> /\ order_items = {}
        /\ fsm[u].state = "confirm"
        /\ Alone

\* C4 (SpecCommit): the commit leaves every cart row of the user that is
\* not in the snapshot (the items it read) as it is.
C4_ClearsSnapshotOnly ==
    [][\A t \in InFlight :
          confirm_commit(t) =>
             \A k \in UserRows(cart, t.u) :
                (\A r \in t.items : <<r.product_id, r.variant>> /= <<k[2], k[3]>>)
                   => k \in DOMAIN cart' /\ cart'[k] = cart[k]]_vars

\* C11 (Spec): the storage holds one session per user, and a checkout:start
\* that passed its test of the cart leaves the user's session at full_name
\* with no field, whatever the session was; the other sessions are untouched.
C11_StartReplaces ==
    /\ [](DOMAIN fsm = Users)
    /\ [][\A t \in InFlight :
             checkout_start_reset(t) =>
                /\ fsm'[t.u] = [state |-> "full_name", data |-> <<>>]
                /\ \A v \in Users \ {t.u} : fsm'[v] = fsm[v]]_vars

\* C11's case: a checkout:start has reset a session that was at the comment
\* step with its fields (the co_comment of that session is still in flight).
C11_Witness ==
    \E u \in Shoppers :
        /\ reply = [u |-> u, msg |-> "ask_full_name", text |-> <<>>]
        /\ fsm[u] = [state |-> "full_name", data |-> <<>>]
        /\ \E t \in InFlight :
              t.h = "co_comment" /\ t.u = u /\ Fields \subseteq DOMAIN t.data

\* C12 (Spec): checkout:cancel in confirm leaves the user with no session
\* and writes no order, no item and no cart row; at any other step it
\* changes nothing.
C12_CancelDiscards ==
    [][\A u \in Users :
          checkout_cancel(u) =>
             /\ orders' = orders /\ order_items' = order_items /\ cart' = cart
             /\ IF fsm[u].state = "confirm"
                THEN fsm' = [fsm EXCEPT ![u] = NoSession]
                ELSE fsm' = fsm /\ reply' = reply /\ tasks' = tasks]_vars

\* C12's case: a session in confirm was cancelled; the cart rows are there
\* and no order exists.
C12_Witness ==
    \E u \in Shoppers :
        /\ reply = [u |-> u, msg |-> "cancelled", text |-> <<>>]
        /\ fsm[u] = NoSession
        /\ UserRows(cart, u) /= {}
        /\ orders = <<>> /\ order_items = {}

\* C13 (SpecWizard): at the np_type step a token other than branch and
\* locker, and at the payment step a token other than cod and prepay,
\* leaves the step and the fields as they are.
C13_ClosedChoices ==
    [][\A u \in Users :
          /\ \A x \in NpData \ NpTokens : co_np_type(u, x) => fsm' = fsm
          /\ \A x \in PayData \ PayTokens : co_payment(u, x) => fsm' = fsm]_vars

\* C14 (SpecWizard): at the steps full_name, city and np_point a text that
\* is empty after strip() leaves the step and the fields as they are.
C14_NonEmptyText ==
    [][\A u \in Users : \A x \in TextsAny :
          /\ Strip(x) = <<>>
          /\ co_full_name(u, x) \/ co_city(u, x) \/ co_np_point(u, x)
          => fsm' = fsm]_vars

\* The sends of order o, in order; the operators that are attempted.
IsOf(o, m) == m.order = o
SendsOf(o) == SelectSeq(sends, LAMBDA m : IsOf(o, m))
IsOperator(a) == a /= 0
Operators == SelectSeq(ADMIN_IDS, IsOperator)
Notifying(o) ==
    \E t \in InFlight : t.h = "checkout_confirm" /\ t.oid = o /\ t.pc \in {8, 9}

\* C15 (SpecCommit): the sends of an order go to the operators in list
\* order, every send but the last has failed and was to an operator, the
\* fallback is sent only after every operator's send has failed, there are
\* at most Len(ADMIN_IDS) + 1 sends, and once the notification is over the
\* fallback has been sent exactly when no operator's send succeeded.
C15_NotifyOrder ==
    \A o \in {r.id : r \in OrdersSet} :
        LET S == SendsOf(o)
            n == Len(S)
            ops == SelectSeq(S, LAMBDA m : ~m.fallback)
        IN  /\ n <= Len(ADMIN_IDS) + 1
            /\ Len(ops) <= Len(Operators)
            /\ \A i \in 1..Len(ops) : ops[i].to = Operators[i]
            /\ \A i \in 1..n : i < n => ~S[i].ok /\ ~S[i].fallback
            /\ Cardinality({i \in 1..n : S[i].ok /\ ~S[i].fallback}) <= 1
            /\ \A i \in 1..n : S[i].fallback => Len(ops) = Len(Operators) /\ S[i].to = orders[o].user_id
            /\ ~Notifying(o) =>
                  ((\E i \in 1..n : S[i].fallback) <=> (\A i \in 1..Len(ops) : ~ops[i].ok))

\* C15's case: the first operator's send failed, the second operator's
\* succeeded, and the handler has ended: two sends, no fallback.
C15_Witness ==
    /\ Alone
    /\ Len(orders) = 1
    /\ sends = <<[order |-> 1, to |-> 1, fallback |-> FALSE, ok |-> FALSE],
                 [order |-> 1, to |-> 3, fallback |-> FALSE, ok |-> TRUE]>>

\* The handler of order o is past its commit.
Committed(t) == t.h = "checkout_confirm" /\ t.pc \in {8, 9, 10}

\* C16 (SpecCommitFair): whatever the sends to the operators and the
\* fallback send do, the committed order and its items stay stored and the
\* cart is not written; the handler goes on to state.clear() and to the
\* answer with the order's number, and it does get there.
C16_NotifyNeverUndoes ==
    /\ [](\A t \in InFlight :
             Committed(t) =>
                /\ \E r \in OrdersSet : r.id = t.oid /\ r.user_id = t.u
                /\ ItemsOf(t.oid) /= {})
    /\ [][\A t \in InFlight : \A ok \in BOOLEAN :
             confirm_notify(t, ok) \/ confirm_fallback(t, ok) =>
                /\ orders' = orders /\ order_items' = order_items
                /\ cart' = cart /\ fsm' = fsm
                /\ \E t2 \in BagToSet(tasks') :
                      Committed(t2) /\ t2.oid = t.oid /\ t2.u = t.u]_vars
    /\ [][\A t \in InFlight :
             confirm_done(t) =>
                /\ orders' = orders /\ order_items' = order_items /\ cart' = cart
                /\ fsm'[t.u] = NoSession
                /\ reply' = [u |-> t.u, msg |-> "order_done",
                             text |-> <<ToString(t.oid)>>]]_vars
    /\ \A u \in Shoppers :
          (\E t \in InFlight : Committed(t) /\ t.u = u)
             ~> (reply.u = u /\ reply.msg = "order_done")

\* C16's case: the sends to both operators and the fallback send failed;
\* the order and its items are stored, the cart is empty, the session is
\* gone and the user has the answer with the order's number.
C16_Witness ==
    \E u \in Shoppers :
        /\ Alone
        /\ Len(sends) = 3 /\ \A i \in 1..3 : ~sends[i].ok
        /\ Len(orders) = 1 /\ orders[1].user_id = u /\ ItemsOf(1) /= {}
        /\ UserRows(cart, u) = {}
        /\ fsm[u] = NoSession
        /\ reply = [u |-> u, msg |-> "order_done", text |-> <<"1">>]

\* C17 (SpecCart): every cart row is a row of a product that exists: the
\* rows of a deleted product are gone.
C17_NoRowOfDeletedProduct ==
    \A k \in DOMAIN cart : products[k[2]].exists

\* C18 (SpecOrders): no step changes or deletes a stored order or a stored
\* item: the orders of before are the first orders of after, the items of
\* before are items of after, and a new item is an item of a new order.
C18_OrdersImmutable ==
    [][/\ Len(orders') >= Len(orders)
       /\ \A i \in 1..Len(orders) : orders'[i] = orders[i]
       /\ order_items \subseteq order_items'
       /\ \A r \in order_items' \ order_items : r.order_id > Len(orders)]_vars

\* C18's case: two users have their orders; afterwards a product of the
\* items was deleted and the other was deactivated.
C18_Witness ==
    /\ Len(orders) = 2 /\ orders[1].user_id /= orders[2].user_id
    /\ \A o \in OrdersSet : ItemsOf(o.id) /= {}
    /\ \E r \in order_items : ~products[r.product_id].exists
    /\ \E r \in order_items :
          products[r.product_id].exists /\ ~products[r.product_id].active
    /\ Alone

\* The events of row k in h, and h in the order f.
EventsOf(h, k) == SelectSeq(h, LAMBDA e : e.key = k)
Orders(n) == {f \in [1..n -> 1..n] : \A i, j \in 1..n : f[i] = f[j] => i = j}
Reordered(h, f) == [i \in 1..Len(h) |-> h[f[i]]]

\* C19 (SpecConc): once the handlers of the events have ended, every cart
\* row is what the events on it give when they are handled one after
\* another in some order: the same quantity, and no row where that order
\* leaves none.
C19_Serializable ==
    Alone =>
       \A k \in AllRows :
          LET h == EventsOf(hist, k)
          IN  \E f \in Orders(Len(h)) :
                 LET q == ReplayRow(Reordered(h, f), k)
                 IN  /\ QtyOf(cart, k) = q
                     /\ k \in DOMAIN cart <=> q > 0

\* The order a user of SpecTwo gets when no other event is handled: the
\* fields of the session, the rows of the user's cart, their total.
AloneItems(u) ==
    {[product_id |-> k[2], variant |-> k[3], price |-> Catalog[k[2]].price,
      qty |-> TwoCarts[k]] : k \in UserRows(TwoCarts, u)}
AloneData == [ConfirmData EXCEPT !["np_type"] = NpTypeText(@)]
SameRows(items, id) ==
    {[product_id |-> r.product_id, variant |-> r.variant, price |-> r.price,
      qty |-> r.qty] : r \in ItemsOf(id)} = items

\* A step of user u: one of u's events, or a step of one of u's handlers.
StepOf(u) ==
    \/ \E k \in CartKeys : cart_inc(u, k) \/ cart_del(u, k)
    \/ checkout_cancel(u)
    \/ checkout_start(u)
    \/ Wizard(u, {GoodPhone}, {"branch"}, {"cod"})
    \/ checkout_confirm(u)
    \/ \E t \in InFlight :
          /\ t.u = u
          /\ checkout_start_reset(t) \/ co_comment_preview(t) \/ Commit(t)

\* C20 (SpecTwo): a step of user u changes no other user's session and no
\* cart row of another user; and the order of user 2, whose cart only
\* user 2's own checkout touches, is the order of user 2's checkout run
\* alone, whatever user 1's cart events and checkout do in between.
C20_PerUser ==
    /\ [][\A u \in Users :
             StepOf(u) =>
                \A v \in Users \ {u} :
                   /\ fsm'[v] = fsm[v]
                   /\ UserRows(cart', v) = UserRows(cart, v)
                   /\ \A k \in UserRows(cart, v) : cart'[k] = cart[k]]_vars
    /\ [](\A o \in OrdersSet :
             o.user_id = 2 =>
                /\ o.data = AloneData
                /\ o.username = Username[2]
                /\ o.total = SumItems(AloneItems(2))
                /\ SameRows(AloneItems(2), o.id))

\* C20's case: the two checkouts interleaved (user 2's order was inserted
\* first, user 1's was notified first) and user 1's cart was written in
\* between: user 1's order has qty 2.
C20_Witness ==
    /\ Alone
    /\ Len(orders) = 2 /\ orders[1].user_id = 2 /\ orders[2].user_id = 1
    /\ Len(sends) = 2 /\ sends[1].order = 2
    /\ \E r \in ItemsOf(2) : r.qty = 2
    /\ cart = <<>>
    /\ \A u \in Users : fsm[u] = NoSession

\* C21 (SpecTwo): while checkout_confirm's transaction is pending, no order
\* and no item of it is in the tables; the commit makes the order, all the
\* items of its snapshot and the removal of the snapshot's cart rows visible
\* in one step; every order in the table has its items.
C21_NoHalfCommit ==
    /\ [](\A t \in InFlight :
             t.h = "checkout_confirm" /\ t.pc \in TxPcs =>
                /\ \A o \in OrdersSet : o.id /= t.oid
                /\ ItemsOf(t.oid) = {})
    /\ [](\A o \in OrdersSet : ItemsOf(o.id) /= {})
    /\ [][\A t \in InFlight :
             confirm_commit(t) =>
                /\ \E o \in Range(orders') : o.id = t.oid
                /\ {r \in order_items' : r.order_id = t.oid} = ItemRows(t.items, t.oid)
                /\ \A r \in t.items :
                      <<t.u, r.product_id, r.variant>> \notin DOMAIN cart']_vars

\* C21's case: user 2's transaction has its order, items and DELETE pending
\* while user 1's handler has just read the cart: the tables show no order,
\* no item, and the cart rows.
C21_Witness ==
    \E t, t2 \in InFlight :
        /\ t.h = "checkout_confirm" /\ t.u = 2 /\ t.pc = 7 /\ t.tx.del
        /\ t2.h = "checkout_confirm" /\ t2.u = 1 /\ t2.pc = 3
        /\ orders = <<>> /\ order_items = {}
        /\ \A r \in t.items : <<t.u, r.product_id, r.variant>> \in DOMAIN cart

\* What hist records of user u's last checkout:confirm and last preview.
SeenOf(op, u) == SelectSeq(hist, LAMBDA e : e.op = op /\ e.key = <<u>>)
LastSeen(op, u) == SeenOf(op, u)[Len(SeenOf(op, u))]
PlainRows(id) ==
    {[product_id |-> r.product_id, variant |-> r.variant, price |-> r.price,
      qty |-> r.qty] : r \in ItemsOf(id)}

\* C22 (SpecLive): the items and the total of an order are those of the
\* cart when its checkout:confirm was handled, whatever the preview showed.
C22_LiveCart ==
    \A o \in OrdersSet :
        /\ SeenOf("confirm", o.user_id) /= <<>>
        /\ PlainRows(o.id) = LastSeen("confirm", o.user_id).items
        /\ o.total = LastSeen("confirm", o.user_id).total

\* C22's case: the cart was edited after the preview; the order has other
\* items and another total than the preview showed.
C22_Witness ==
    \E o \in OrdersSet :
        /\ SeenOf("preview", o.user_id) /= <<>>
        /\ PlainRows(o.id) /= LastSeen("preview", o.user_id).items
        /\ o.total /= LastSeen("preview", o.user_id).total
        /\ Alone

\* The cart after an add of row k: k holds one more than before (1 when it
\* was not there), every other row is as it was.
AddedOne(k) ==
    /\ DOMAIN cart' = DOMAIN cart \cup {k}
    /\ cart'[k] = QtyOf(cart, k) + 1
    /\ \A x \in DOMAIN cart \ {k} : cart'[x] = cart[x]

\* C23 (SpecCart): the INSERT of cart_add and of cart_add_variant adds one
\* to the row of its key, or creates it with qty 1, and changes no other
\* row; a cart:add of a product without variants that is deleted or inactive
\* starts no insert and leaves the cart as it is.
C23_AddOne ==
    [][/\ \A t \in InFlight : cart_add_insert(t) => AddedOne(<<t.u>> \o t.key)
       /\ \A u \in Users, k \in VariantKeys :
             cart_add_variant(u, k) => AddedOne(<<u>> \o k)
       /\ \A u \in Users, p \in Pids :
             /\ cart_add(u, p)
             /\ products[p].variants = <<>>
             /\ ~(products[p].exists /\ products[p].active)
             => cart' = cart /\ tasks' = tasks]_vars

\* C23's case: two adds of the product without variants and one add of the
\* variant row have been handled, and the product without variants is now
\* inactive (a cart:add of it is rejected from here on).
C23_Witness ==
    \E u \in Shoppers :
        /\ Alone
        /\ <<u, 1, "">> \in DOMAIN cart /\ cart[<<u, 1, "">>] = 2
        /\ <<u, 2, "M">> \in DOMAIN cart /\ cart[<<u, 2, "M">>] = 1
        /\ products[1].exists /\ ~products[1].active

\* C24 (SpecDouble): the one session in confirm of a user gives at most one
\* order, and no two orders hold an item of the same cart row.
C24_OneOrderPerSession ==
    /\ \A u \in Users : Cardinality({o \in OrdersSet : o.user_id = u}) <= 1
    /\ \A r1, r2 \in order_items :
          r1.product_id = r2.product_id /\ r1.variant = r2.variant
             => r1.order_id = r2.order_id

\* C25 (Spec): a session in confirm holds the seven fields.
C25_ConfirmHasFields ==
    \A u \in Users : fsm[u].state = "confirm" => Fields \subseteq DOMAIN fsm[u].data

\* C26 (SpecAdmin): a write of the products table (the INSERT of the add
\* wizard, the UPDATE of a toggle, a DELETE) belongs to an update of a user
\* for whom is_admin_user holds with the username the update carries; an
\* update of any other user changes no product.
C26_OnlyAdmins ==
    [][/\ \A t \in InFlight :
             /\ admin_add_insert(t) \/ admin_toggle_write(t)
             /\ ~is_admin_user(t.u, t.key[2])
             => products' = products
       /\ \A u \in Users : \A n \in Names[u], p \in Pids :
             admin_del_as(u, n, p) /\ ~is_admin_user(u, n) => products' = products]_vars

====
